---- MODULE Spec2Model ----
(***************************************************************************)
(* whirlpool: a single Maelstrom node.  main (src/src/main.rs) decodes one *)
(* Message at a time from stdin and hands it to EchoNode::step             *)
(* (src/src/lib.rs), which matches on the payload (src/src/payload.rs),    *)
(* updates the node, writes at most one reply line to stdout and then      *)
(* increments the node's message id.  Any error ends the loop.             *)
(***************************************************************************)
EXTENDS Integers, Sequences, FiniteSets, TLC

VARIABLES
    id,             \* EchoNode.id: the msg_id of the next reply
    value,          \* EchoNode.value: the accumulator (usize)
    known,          \* EchoNode.known: HashMap<String, Vec<usize>>
    status,         \* where main is: "running", "failed" (returned Err or panicked), "done"
    result,         \* how the last loop iteration ended
    lastIn,         \* Option<Message>: the message the last iteration handed to step
    lastOut,        \* Option<Message>: the reply line the last iteration wrote
    consumed,       \* number of items pulled from the input iterator
    overflowChecks, \* build profile: TRUE = overflow panics (debug), FALSE = wraps (release)
    dispatched,     \* history: number of step calls that returned Ok
    sumDeltas,      \* history: mathematical sum of the deltas of the add messages applied
    broadcasts,     \* history: the values of the broadcast messages stepped, in arrival order
    lastTopology,   \* history: the map of the most recent topology message stepped
    outLog,         \* history: one entry per reply line written, in the order written
    initOks,        \* history: number of init_ok messages stepped
    uuidCalls,      \* history: the values Uuid::new_v4() returned, in call order
    genIds          \* history: the id fields of the generate_ok replies written, in order

vars == <<id, value, known, status, result, lastIn, lastOut, consumed,
          overflowChecks, dispatched, sumDeltas, broadcasts, lastTopology,
          outLog, initOks, uuidCalls, genIds>>

-----------------------------------------------------------------------------
(* Bounds of the model *)

\* Longest input stream explored.
MaxMsgs == 3

\* usize arithmetic is modulo UsizeMod; stands for 2^64, scaled down.
UsizeMod == 8

-----------------------------------------------------------------------------
(* Option<T> *)

None == <<>>

Some(x) == <<x>>

-----------------------------------------------------------------------------
(* The inputs the harness may send *)

\* The sender (a client) and the addressee (this node).
Sources == {"c1"}

Destinations == {"n1"}

MsgIds == {None, Some(1)}

Deltas == {3, 4, UsizeMod - 1}

EchoStrings == {"a", "b"}

BroadcastValues == {5, 9}

\* Outcomes of Uuid::new_v4().to_string(): any value of the id space.
Uuids == {"u1", "u2"}

EmptyMap == <<>>

Topologies == {EmptyMap, "n1" :> <<2>>, ("n1" :> <<3>>) @@ ("n2" :> <<1>>), "n2" :> <<1, 1>>}

RequestPayloads ==
    {[type |-> "add", delta |-> d] : d \in Deltas}
    \cup {[type |-> "echo", echo |-> s] : s \in EchoStrings}
    \cup {[type |-> "init", node_id |-> "n1", node_ids |-> <<"n1", "n2">>]}
    \cup {[type |-> "generate"]}
    \cup {[type |-> "broadcast", message |-> m] : m \in BroadcastValues}
    \cup {[type |-> "read"]}
    \cup {[type |-> "topology", topology |-> t] : t \in Topologies}

ReplyPayloads ==
    {[type |-> "add_ok"], [type |-> "init_ok"], [type |-> "broadcast_ok"],
     [type |-> "topology_ok"]}
    \cup {[type |-> "echo_ok", echo |-> "a"]}
    \cup {[type |-> "generate_ok", id |-> "u1"]}
    \cup {[type |-> "read_ok", value |-> 0]}

Payload == RequestPayloads \cup ReplyPayloads

\* Requests carry no in_reply_to; replies answer some earlier msg_id.
Body ==
    {[id |-> i, in_reply_to |-> None, payload |-> p] : i \in MsgIds, p \in RequestPayloads}
    \cup {[id |-> i, in_reply_to |-> Some(0), payload |-> p] : i \in MsgIds, p \in ReplyPayloads}

Message == {[src |-> s, dest |-> d, body |-> b] : s \in Sources, d \in Destinations, b \in Body}

\* What the two writes of a reply (serde_json::to_writer, then write_all(b"\n")) can do.
SinkOutcomes == {"ok", "to_writer_err", "write_all_err"}

-----------------------------------------------------------------------------
(* usize arithmetic of `self.value += delta` *)

\* The mathematical sum does not fit a usize.
Overflows(a, b) == a + b >= UsizeMod

\* What the addition stores when it does not panic.
WrappingAdd(a, b) == (a + b) % UsizeMod

\* `self.id += 1`.  The id grows by one per message, so a run would need
\* 2^64 messages to overflow it; it is kept as a plain natural number.
NextId(i) == i + 1

-----------------------------------------------------------------------------
(* The reply each match arm builds *)

AddReply(self_id, input) ==
    [src |-> input.dest,
     dest |-> input.src,
     body |-> [id |-> Some(self_id),
               in_reply_to |-> input.body.id,
               payload |-> [type |-> "add_ok"]]]

\* Variant of BroadcastReply: the literal was copied from the Add arm, payload included.
BroadcastReply_AnswersAddOk(self_id, input) ==
    [src |-> input.dest,
     dest |-> input.src,
     body |-> [id |-> Some(self_id),
               in_reply_to |-> input.body.id,
               payload |-> [type |-> "add_ok"]]]

BroadcastReply(self_id, input) ==
    [src |-> input.dest,
     dest |-> input.src,
     body |-> [id |-> Some(self_id),
               in_reply_to |-> input.body.id,
               payload |-> [type |-> "broadcast_ok"]]]

\* Variant of TopologyReply: the envelope keeps the request's src and dest.
TopologyReply_NoSwap(self_id, input) ==
    [src |-> input.src,
     dest |-> input.dest,
     body |-> [id |-> Some(self_id),
               in_reply_to |-> input.body.id,
               payload |-> [type |-> "topology_ok"]]]

TopologyReply(self_id, input) ==
    [src |-> input.dest,
     dest |-> input.src,
     body |-> [id |-> Some(self_id),
               in_reply_to |-> input.body.id,
               payload |-> [type |-> "topology_ok"]]]

\* Variant of ReadReply: the reply carries the id after the increment.
ReadReply_PostIncrementId(self_id, self_value, input) ==
    [src |-> input.dest,
     dest |-> input.src,
     body |-> [id |-> Some(self_id + 1),
               in_reply_to |-> input.body.id,
               payload |-> [type |-> "read_ok", value |-> self_value]]]

ReadReply(self_id, self_value, input) ==
    [src |-> input.dest,
     dest |-> input.src,
     body |-> [id |-> Some(self_id),
               in_reply_to |-> input.body.id,
               payload |-> [type |-> "read_ok", value |-> self_value]]]

\* Variant of GenerateReply: in_reply_to copies the request's in_reply_to.
GenerateReply_CopiesInReplyTo(self_id, input, uuid) ==
    [src |-> input.dest,
     dest |-> input.src,
     body |-> [id |-> Some(self_id),
               in_reply_to |-> input.body.in_reply_to,
               payload |-> [type |-> "generate_ok", id |-> uuid]]]

\* Variant of GenerateReply: the id is the nil UUID instead of the generated one.
GenerateReply_NilUuid(self_id, input, uuid) ==
    [src |-> input.dest,
     dest |-> input.src,
     body |-> [id |-> Some(self_id),
               in_reply_to |-> input.body.id,
               payload |-> [type |-> "generate_ok", id |-> "nil"]]]

GenerateReply(self_id, input, uuid) ==
    [src |-> input.dest,
     dest |-> input.src,
     body |-> [id |-> Some(self_id),
               in_reply_to |-> input.body.id,
               payload |-> [type |-> "generate_ok", id |-> uuid]]]

InitReply(self_id, input) ==
    [src |-> input.dest,
     dest |-> input.src,
     body |-> [id |-> Some(self_id),
               in_reply_to |-> input.body.id,
               payload |-> [type |-> "init_ok"]]]

EchoReply(self_id, input) ==
    [src |-> input.dest,
     dest |-> input.src,
     body |-> [id |-> Some(self_id),
               in_reply_to |-> input.body.id,
               payload |-> [type |-> "echo_ok", echo |-> input.body.payload.echo]]]

\* Variant of ReplaceKnown: the new entries are merged into the old map.
ReplaceKnown_Merge(old, topology) == topology @@ old

\* `self.known = topology`
ReplaceKnown(old, topology) == topology

-----------------------------------------------------------------------------
(* One iteration of main's loop whose input decoded: state.step(input, ..)? *)

\* Variant of Take: main reports a failed iteration and goes on with the next item.
Take_ContinuesAfterError(input) ==
    /\ status \in {"running", "failed"}
    /\ consumed < MaxMsgs
    /\ consumed' = consumed + 1
    /\ lastIn' = Some(input)
    /\ overflowChecks' = overflowChecks

\* The loop is running and the iterator yields Ok(input), which is passed to step.
Take(input) ==
    /\ status = "running"
    /\ consumed < MaxMsgs
    /\ consumed' = consumed + 1
    /\ lastIn' = Some(input)
    /\ overflowChecks' = overflowChecks

\* What the output history keeps of a reply line: the position in the input
\* of the message it answers, its msg_id, and how many init_ok were stepped before.
OutEntry(reply) ==
    [in |-> consumed + 1, id |-> reply.body.id[1], initOks |-> initOks]

\* Variant of Emit: the reply line is written twice.
Emit_WritesTwice(reply, sink) ==
    IF sink = "ok"
    THEN /\ lastOut' = Some(reply)
         /\ outLog' = outLog \o <<OutEntry(reply), OutEntry(reply)>>
         /\ id' = NextId(id)
         /\ result' = "ok"
         /\ status' = "running"
         /\ dispatched' = dispatched + 1
    ELSE /\ lastOut' = None
         /\ outLog' = outLog
         /\ id' = id
         /\ result' = sink
         /\ status' = "failed"
         /\ dispatched' = dispatched

\* to_writer(reply)?; write_all(b"\n")?; then, after the match, self.id += 1; Ok(()).
\* A failed write returns Err before the increment and main returns it.
Emit(reply, sink) ==
    IF sink = "ok"
    THEN /\ lastOut' = Some(reply)
         /\ outLog' = Append(outLog, OutEntry(reply))
         /\ id' = NextId(id)
         /\ result' = "ok"
         /\ status' = "running"
         /\ dispatched' = dispatched + 1
    ELSE /\ lastOut' = None
         /\ outLog' = outLog
         /\ id' = id
         /\ result' = sink
         /\ status' = "failed"
         /\ dispatched' = dispatched

\* Variant of StepAdd: the accumulator is updated only once the reply is written.
StepAdd_AddsAfterWrite(input, sink) ==
    /\ input.body.payload.type = "add"
    /\ Take(input)
    /\ IF sink = "ok" /\ overflowChecks /\ Overflows(value, input.body.payload.delta)
       THEN /\ result' = "panic"
            /\ status' = "failed"
            /\ lastOut' = None
            /\ UNCHANGED <<id, value, dispatched, sumDeltas, outLog>>
       ELSE /\ value' = IF sink = "ok"
                        THEN WrappingAdd(value, input.body.payload.delta)
                        ELSE value
            /\ sumDeltas' = IF sink = "ok"
                            THEN sumDeltas + input.body.payload.delta
                            ELSE sumDeltas
            /\ Emit(AddReply(id, input), sink)
    /\ UNCHANGED <<known, broadcasts, lastTopology, initOks, uuidCalls, genIds>>

\* Payload::Add { delta }
StepAdd(input, sink) ==
    /\ input.body.payload.type = "add"
    /\ Take(input)
    /\ IF overflowChecks /\ Overflows(value, input.body.payload.delta)
       THEN \* attempt to add with overflow: the process panics
            /\ result' = "panic"
            /\ status' = "failed"
            /\ lastOut' = None
            /\ UNCHANGED <<id, value, dispatched, sumDeltas, outLog>>
       ELSE /\ value' = WrappingAdd(value, input.body.payload.delta)
            /\ sumDeltas' = sumDeltas + input.body.payload.delta
            /\ Emit(AddReply(id, input), sink)
    /\ UNCHANGED <<known, broadcasts, lastTopology, initOks, uuidCalls, genIds>>

\* Payload::Broadcast { .. }
StepBroadcast(input, sink) ==
    /\ input.body.payload.type = "broadcast"
    /\ Take(input)
    /\ broadcasts' = Append(broadcasts, input.body.payload.message)
    /\ Emit(BroadcastReply(id, input), sink)
    /\ UNCHANGED <<value, known, sumDeltas, lastTopology, initOks, uuidCalls, genIds>>

\* Payload::Topology { topology }
StepTopology(input, sink) ==
    /\ input.body.payload.type = "topology"
    /\ Take(input)
    /\ known' = ReplaceKnown(known, input.body.payload.topology)
    /\ lastTopology' = input.body.payload.topology
    /\ Emit(TopologyReply(id, input), sink)
    /\ UNCHANGED <<value, sumDeltas, broadcasts, initOks, uuidCalls, genIds>>

\* Variant of StepRead: the read takes the accumulator, leaving 0 behind.
StepRead_TakesValue(input, sink) ==
    /\ input.body.payload.type = "read"
    /\ Take(input)
    /\ value' = 0
    /\ Emit(ReadReply(id, value, input), sink)
    /\ UNCHANGED <<known, sumDeltas, broadcasts, lastTopology, initOks, uuidCalls, genIds>>

\* Payload::Read { .. }
StepRead(input, sink) ==
    /\ input.body.payload.type = "read"
    /\ Take(input)
    /\ Emit(ReadReply(id, value, input), sink)
    /\ UNCHANGED <<value, known, sumDeltas, broadcasts, lastTopology, initOks, uuidCalls, genIds>>

\* Payload::Generate { .. }
StepGenerate(input, sink) ==
    /\ input.body.payload.type = "generate"
    /\ Take(input)
    /\ \E uuid \in Uuids :
          LET reply == GenerateReply(id, input, uuid) IN
            /\ uuidCalls' = Append(uuidCalls, uuid)
            /\ genIds' = IF sink = "ok" THEN Append(genIds, reply.body.payload.id) ELSE genIds
            /\ Emit(reply, sink)
    /\ UNCHANGED <<value, known, sumDeltas, broadcasts, lastTopology, initOks>>

\* Payload::Init { .. }
StepInit(input, sink) ==
    /\ input.body.payload.type = "init"
    /\ Take(input)
    /\ Emit(InitReply(id, input), sink)
    /\ UNCHANGED <<value, known, sumDeltas, broadcasts, lastTopology, initOks, uuidCalls, genIds>>

\* Variant of StepEcho: the arm was copied from Init and still answers init_ok.
StepEcho_AnswersInitOk(input, sink) ==
    /\ input.body.payload.type = "echo"
    /\ Take(input)
    /\ Emit(InitReply(id, input), sink)
    /\ UNCHANGED <<value, known, sumDeltas, broadcasts, lastTopology, initOks, uuidCalls, genIds>>

\* Payload::Echo { echo }
StepEcho(input, sink) ==
    /\ input.body.payload.type = "echo"
    /\ Take(input)
    /\ Emit(EchoReply(id, input), sink)
    /\ UNCHANGED <<value, known, sumDeltas, broadcasts, lastTopology, initOks, uuidCalls, genIds>>

\* The reply variants whose arm is bail!(..)
BailTags == {"echo_ok", "generate_ok", "read_ok", "broadcast_ok", "topology_ok", "add_ok"}

\* Variant of StepUnexpectedReply: the arm is `{}`, as for InitOk.
StepUnexpectedReply_Swallowed(input) ==
    /\ input.body.payload.type \in BailTags
    /\ Take(input)
    /\ id' = NextId(id)
    /\ result' = "ok"
    /\ status' = "running"
    /\ lastOut' = None
    /\ dispatched' = dispatched + 1
    /\ UNCHANGED <<value, known, sumDeltas, broadcasts, lastTopology,
                   outLog, initOks, uuidCalls, genIds>>

\* Payload::EchoOk | GenerateOk | ReadOk | BroadcastOk | TopologyOk | AddOk => bail!(..)
StepUnexpectedReply(input) ==
    /\ input.body.payload.type \in BailTags
    /\ Take(input)
    /\ result' = "bail"
    /\ status' = "failed"
    /\ lastOut' = None
    /\ UNCHANGED <<id, value, known, dispatched, sumDeltas, broadcasts, lastTopology,
                   outLog, initOks, uuidCalls, genIds>>

\* Variant of StepInitOk: the arm returns Ok(()) at once, skipping the increment.
StepInitOk_NoIncrement(input) ==
    /\ input.body.payload.type = "init_ok"
    /\ Take(input)
    /\ id' = id
    /\ result' = "ok"
    /\ status' = "running"
    /\ lastOut' = None
    /\ dispatched' = dispatched + 1
    /\ initOks' = initOks + 1
    /\ UNCHANGED <<value, known, sumDeltas, broadcasts, lastTopology,
                   outLog, uuidCalls, genIds>>

\* Variant of StepInitOk: init_ok bails like the other reply variants.
StepInitOk_Bails(input) ==
    /\ input.body.payload.type = "init_ok"
    /\ Take(input)
    /\ result' = "bail"
    /\ status' = "failed"
    /\ lastOut' = None
    /\ UNCHANGED <<id, value, known, dispatched, sumDeltas, broadcasts, lastTopology,
                   outLog, initOks, uuidCalls, genIds>>

\* Payload::InitOk { .. } => {}   then self.id += 1; Ok(())
StepInitOk(input) ==
    /\ input.body.payload.type = "init_ok"
    /\ Take(input)
    /\ id' = NextId(id)
    /\ result' = "ok"
    /\ status' = "running"
    /\ lastOut' = None
    /\ dispatched' = dispatched + 1
    /\ initOks' = initOks + 1
    /\ UNCHANGED <<value, known, sumDeltas, broadcasts, lastTopology,
                   outLog, uuidCalls, genIds>>

\* EchoNode::step on `input`: the match of lines 39-152, with the sink
\* behaving as `sink` in the arms that write.
Step(input) ==
    \/ \E sink \in SinkOutcomes : StepAdd(input, sink)
    \/ \E sink \in SinkOutcomes : StepBroadcast(input, sink)
    \/ \E sink \in SinkOutcomes : StepTopology(input, sink)
    \/ \E sink \in SinkOutcomes : StepRead(input, sink)
    \/ \E sink \in SinkOutcomes : StepGenerate(input, sink)
    \/ \E sink \in SinkOutcomes : StepInit(input, sink)
    \/ \E sink \in SinkOutcomes : StepEcho(input, sink)
    \/ StepUnexpectedReply(input)
    \/ StepInitOk(input)

\* The next item of the iterator is an Err: input.context(..)? returns it.
DecodeError ==
    /\ status = "running"
    /\ consumed < MaxMsgs
    /\ consumed' = consumed + 1
    /\ result' = "decode_err"
    /\ status' = "failed"
    /\ lastIn' = None
    /\ lastOut' = None
    /\ UNCHANGED <<id, value, known, overflowChecks, dispatched, sumDeltas,
                   broadcasts, lastTopology, outLog, initOks, uuidCalls, genIds>>

\* The iterator is exhausted: the loop ends and main returns Ok(()).
EndOfInput ==
    /\ status = "running"
    /\ status' = "done"
    /\ result' = "eof"
    /\ lastIn' = None
    /\ lastOut' = None
    /\ UNCHANGED <<id, value, known, consumed, overflowChecks, dispatched, sumDeltas,
                   broadcasts, lastTopology, outLog, initOks, uuidCalls, genIds>>

Init ==
    /\ id = 0
    /\ value = 0
    /\ known = EmptyMap
    /\ status = "running"
    /\ result = "none"
    /\ lastIn = None
    /\ lastOut = None
    /\ consumed = 0
    /\ overflowChecks \in BOOLEAN
    /\ dispatched = 0
    /\ sumDeltas = 0
    /\ broadcasts = <<>>
    /\ lastTopology = EmptyMap
    /\ outLog = <<>>
    /\ initOks = 0
    /\ uuidCalls = <<>>
    /\ genIds = <<>>

Next ==
    \/ \E input \in Message : Step(input)
    \/ DecodeError
    \/ EndOfInput

Spec == Init /\ [][Next]_vars

\* A run on a stream of well-formed requests and init_ok only, with a sink
\* that accepts every write: no decode error, no unexpected reply, no write error.
NextWellFormed ==
    \/ \E input \in Message :
          \/ StepAdd(input, "ok")
          \/ StepBroadcast(input, "ok")
          \/ StepTopology(input, "ok")
          \/ StepRead(input, "ok")
          \/ StepGenerate(input, "ok")
          \/ StepInit(input, "ok")
          \/ StepEcho(input, "ok")
          \/ StepInitOk(input)
    \/ EndOfInput

\* The loop never pauses while the iterator has an item or has ended.
SpecWellFormed == Init /\ [][NextWellFormed]_vars /\ WF_vars(NextWellFormed)

-----------------------------------------------------------------------------
(* Properties *)

\* The last loop iteration handed a message with payload tag `tag` to step.
LastInIs(tag) == lastIn # None /\ lastIn[1].body.payload.type = tag

\* The step taken now hands a message with a tag of `tags` to EchoNode::step.
Steps(tags) ==
    /\ consumed' = consumed + 1
    /\ lastIn' # None
    /\ lastIn'[1].body.payload.type \in tags

\* C1: next_message_id starts at 0 and always equals the number of messages
\* whose dispatch returned Ok: each of them (the init_ok arm included) adds
\* exactly 1, a failed dispatch adds nothing.
C1_IdCountsDispatched == id = dispatched

\* Two messages were dispatched (id = 2) and the third failed without incrementing.
C1_Witness ==
    /\ consumed = 3
    /\ id = 2
    /\ result \in {"bail", "to_writer_err", "write_all_err", "panic"}

\* C2: every reply written carries a msg_id, and it is the value the node's
\* id had when the step began (before the increment).
C2_ReplyIdIsPreIncrement ==
    [][lastOut' # None => lastOut'[1].body.id = Some(id)]_vars

\* A read was answered with msg_id 2, after which the node's id is 3.
C2_Witness ==
    /\ LastInIs("read")
    /\ lastOut # None
    /\ lastOut[1].body.id = Some(2)
    /\ id = 3

\* C3: on every arm that replies, the reply's in_reply_to is the inbound
\* message's msg_id, absent when that one is absent.
C3_InReplyToIsRequestId ==
    lastOut # None => lastOut[1].body.in_reply_to = lastIn[1].body.id

\* A generate without msg_id was answered without in_reply_to.
C3_Witness ==
    /\ LastInIs("generate")
    /\ lastIn[1].body.id = None
    /\ lastOut # None
    /\ lastOut[1].body.in_reply_to = None

\* C4: on every arm that replies, the reply's src is the inbound dest and
\* the reply's dest is the inbound src.
C4_SrcDestSwapped ==
    lastOut # None =>
        /\ lastOut[1].src = lastIn[1].dest
        /\ lastOut[1].dest = lastIn[1].src

\* A topology message from c1 to n1 was answered from n1 to c1.
C4_Witness ==
    /\ LastInIs("topology")
    /\ lastIn[1].src = "c1"
    /\ lastOut # None
    /\ lastOut[1].src = "n1"
    /\ lastOut[1].dest = "c1"

\* C5: an inbound echo_ok, generate_ok, add_ok, broadcast_ok, read_ok or
\* topology_ok makes step fail, writes no reply and leaves id, value and
\* known as they were.
C5_UnexpectedReplyFails ==
    [][Steps({"echo_ok", "generate_ok", "add_ok", "broadcast_ok", "read_ok", "topology_ok"})
        => /\ result' = "bail"
           /\ status' = "failed"
           /\ lastOut' = None
           /\ id' = id
           /\ value' = value
           /\ known' = known]_vars

\* An unexpected reply failed on a node whose id, value and map had all moved.
C5_Witness ==
    /\ lastIn # None
    /\ lastIn[1].body.payload.type \in
          {"echo_ok", "generate_ok", "add_ok", "broadcast_ok", "read_ok", "topology_ok"}
    /\ result = "bail"
    /\ id = 2
    /\ value # 0
    /\ known # EmptyMap

\* C6: an inbound init_ok writes no reply, returns no error, adds exactly 1
\* to id and leaves value and known as they were.
C6_InitOkSilentlyCounted ==
    [][Steps({"init_ok"})
        => /\ result' = "ok"
           /\ status' = "running"
           /\ lastOut' = None
           /\ id' = id + 1
           /\ value' = value
           /\ known' = known]_vars

\* An init_ok was accepted as third message by a node with a value and a map.
C6_Witness ==
    /\ LastInIs("init_ok")
    /\ result = "ok"
    /\ lastOut = None
    /\ id = 3
    /\ value # 0
    /\ known # EmptyMap

\* C7: each read is answered with read_ok whose value is the sum of the
\* deltas of all add messages processed before it.
C7_ReadReturnsSumOfDeltas ==
    LastInIs("read") /\ lastOut # None =>
        /\ lastOut[1].body.payload.type = "read_ok"
        /\ lastOut[1].body.payload.value = sumDeltas

\* C8: after broadcasts, a read is answered with read_ok whose messages
\* field lists the broadcast values received so far, in arrival order, with
\* duplicates.
C8_ReadReturnsBroadcastLog ==
    LastInIs("read") /\ lastOut # None /\ broadcasts # <<>> =>
        /\ lastOut[1].body.payload.type = "read_ok"
        /\ "messages" \in DOMAIN lastOut[1].body.payload
        /\ lastOut[1].body.payload.messages = broadcasts

\* C9: the node's map is exactly the map of the most recent topology
\* message stepped, and empty before the first one: no entry of an earlier
\* map survives.
C9_TopologyLastWriteWins == known = lastTopology

\* A topology message arrived at a node that already held another map, and
\* only the new map is held.
C9_Witness ==
    /\ LastInIs("topology")
    /\ lastIn[1].body.payload.topology = ("n2" :> <<1, 1>>)
    /\ known = ("n2" :> <<1, 1>>)
    /\ dispatched = 3

\* C10: every echo request that is answered is answered with echo_ok
\* carrying the request's echo string, and in_reply_to is the request's
\* msg_id.
C10_EchoRoundTrip ==
    LastInIs("echo") /\ result = "ok" =>
        /\ lastOut # None
        /\ lastOut[1].body.payload = [type |-> "echo_ok", echo |-> lastIn[1].body.payload.echo]
        /\ lastOut[1].body.in_reply_to = lastIn[1].body.id

\* The third request, echo "b" with msg_id 1, was answered.
C10_Witness ==
    /\ LastInIs("echo")
    /\ lastIn[1].body.payload.echo = "b"
    /\ lastIn[1].body.id = Some(1)
    /\ lastOut # None
    /\ lastOut[1].body.payload.echo = "b"
    /\ consumed = 3

\* C11: every payload the node writes is a reply variant, the one paired
\* with the inbound tag: echo->echo_ok, init->init_ok, generate->generate_ok,
\* add->add_ok, broadcast->broadcast_ok, read->read_ok, topology->topology_ok.
C11_ReplyTagPairsWithRequest ==
    lastOut # None =>
        LET paired == [echo |-> "echo_ok", init |-> "init_ok", generate |-> "generate_ok",
                       add |-> "add_ok", broadcast |-> "broadcast_ok", read |-> "read_ok",
                       topology |-> "topology_ok"]
            tag == lastIn[1].body.payload.type
        IN /\ tag \in DOMAIN paired
           /\ lastOut[1].body.payload.type = paired[tag]
           /\ lastOut[1].body.payload.type \in
                 {"echo_ok", "init_ok", "generate_ok", "add_ok", "broadcast_ok",
                  "read_ok", "topology_ok"}

\* A broadcast was answered with broadcast_ok.
C11_Witness ==
    /\ LastInIs("broadcast")
    /\ lastOut # None
    /\ lastOut[1].body.payload.type = "broadcast_ok"

\* C12: every step leaves the output as it is or appends exactly one line to
\* its end, and that line answers the message consumed in this very step:
\* zero or one reply per inbound message, written before the next message is
\* dispatched, so the output is in input order.
C12_RepliesInInputOrder ==
    [][\/ outLog' = outLog
       \/ /\ consumed' = consumed + 1
          /\ lastOut' # None
          /\ Len(outLog') = Len(outLog) + 1
          /\ SubSeq(outLog', 1, Len(outLog)) = outLog
          /\ outLog'[Len(outLog')].in = consumed']_vars

\* Three messages gave two replies, to the first and the third: the second
\* (an init_ok) gave none.
C12_Witness ==
    /\ consumed = 3
    /\ Len(outLog) = 2
    /\ outLog[1].in = 1
    /\ outLog[2].in = 3

\* C13: an iteration that fails (decode error, bail!, write error, panic)
\* leaves main failed, and from a failed main nothing more is consumed,
\* written or changed in the node.
C13_FailureAborts ==
    [][/\ result' \in {"decode_err", "bail", "to_writer_err", "write_all_err", "panic"}
            => status' = "failed"
       /\ status = "failed"
            => /\ status' = "failed"
               /\ consumed' = consumed
               /\ outLog' = outLog
               /\ id' = id
               /\ value' = value
               /\ known' = known]_vars

\* The second of at most MaxMsgs messages failed on its write and the run
\* stopped there, with one reply written.
C13_Witness ==
    /\ status = "failed"
    /\ result = "to_writer_err"
    /\ consumed = 2
    /\ Len(outLog) = 1

\* C14: echo, init, generate and read leave value and known as they were;
\* add leaves known as it was; topology leaves value as it was.
C14_RequestFrame ==
    [][/\ Steps({"echo", "init", "generate", "read"}) => value' = value /\ known' = known
       /\ Steps({"add"}) => known' = known
       /\ Steps({"topology"}) => value' = value]_vars

\* A read was answered by a node holding a value and a map, and both are still there.
C14_Witness ==
    /\ LastInIs("read")
    /\ result = "ok"
    /\ value # 0
    /\ known # EmptyMap

\* No value occurs twice in `seq`.
NoRepeats(seq) == \A i, j \in 1..Len(seq) : i # j => seq[i] # seq[j]

C16_WellFormedRunCompletes ==
    /\ status # "failed"
    /\ status = "done" => Len(outLog) = consumed - initOks

\* C17: when the write of a reply fails, main fails, id is not incremented,
\* and the arm's update stays: after add the accumulator holds the usize sum
\* of its old value and delta, after topology known is the message's map.
C17_WriteFailureKeepsUpdate ==
    [][consumed' = consumed + 1 /\ result' \in {"to_writer_err", "write_all_err"}
        => /\ status' = "failed"
           /\ lastOut' = None
           /\ id' = id
           /\ lastIn'[1].body.payload.type = "add"
                => value' = (value + lastIn'[1].body.payload.delta) % UsizeMod
           /\ lastIn'[1].body.payload.type = "topology"
                => known' = lastIn'[1].body.payload.topology]_vars

\* After add 3 and one more reply, the write of the reply to add 4 failed:
\* the accumulator is 7 and id is still 2.
C17_Witness ==
    /\ LastInIs("add")
    /\ lastIn[1].body.payload.delta = 4
    /\ result \in {"to_writer_err", "write_all_err"}
    /\ value = 7
    /\ id = 2

\* C18: in the order written, each reply's msg_id exceeds the previous
\* one's by 1 plus the number of init_ok messages stepped between the two:
\* the msg_ids are strictly increasing, hence pairwise distinct.
C18_ReplyIdsIncrease ==
    \A k \in 1..(Len(outLog) - 1) :
        /\ outLog[k + 1].id > outLog[k].id
        /\ outLog[k + 1].id - outLog[k].id = 1 + (outLog[k + 1].initOks - outLog[k].initOks)

\* Two consecutive replies whose msg_ids differ by 2: one init_ok came between.
C18_Witness ==
    /\ Len(outLog) = 2
    /\ outLog[2].id = outLog[1].id + 2
    /\ outLog[2].initOks = outLog[1].initOks + 1

====
